---------------------------- MODULE Spec2Model ----------------------------
(***************************************************************************)
(* Model of g3dMGU_editCustomStepCommonPath.py: the tool that edits the    *)
(* common path of the mGear guide node's preCustomStep / postCustomStep    *)
(* attributes.                                                             *)
(*                                                                         *)
(* Strings are sequences of one-character strings, so that split, replace  *)
(* and the path functions are computed the way the Python library computes *)
(* them.  The path functions are those of posixpath; on the alphabet used  *)
(* here (no backslash, no drive letter) ntpath followed by the source's    *)
(* replace of backslashes gives the same results.                          *)
(***************************************************************************)
EXTENDS Integers, Sequences, FiniteSets, TLC

VARIABLES
    pre,        \* guide.preCustomStep, the attribute value
    post,       \* guide.postCustomStep, the attribute value
    guideFound, \* whether a node carrying preCustomStep exists in the scene
    errRaises,  \* host: whether cmds.error raises (Maya) or returns
    runs,       \* number of times main() has been run
    window,     \* the editor window: exists, currentPath, text field, events
    mainLog,    \* what the last run of main() did
    upd         \* what the last run of updateCustomStepStrings did

vars == <<pre, post, guideFound, errRaises, runs, window, mainLog, upd>>

-----------------------------------------------------------------------------
(* Bounds *)

\* how many times main() is run
MaxRuns == 2
\* how many components a generated path has at most
MaxDepth == 2
\* how many of Update, AddVer, Cancel the user presses on one window at most
MaxFired == 2
\* how long an attribute string gets at most
MaxStrLen == 48

-----------------------------------------------------------------------------
(* Python str operations *)

\* Python's None, as passed for newPath
None == <<"None">>

SLASH == <<"/">>
COMMA == <<",">>
BAR == <<" ", "|", " ">>

Range(s) == {s[i] : i \in 1..Len(s)}

\* s[i:] for a 1-based start index
From(s, i) == SubSeq(s, i, Len(s))

\* s.startswith(p) tested at position i
MatchAt(s, p, i) ==
    /\ i + Len(p) - 1 <= Len(s)
    /\ \A k \in 1..Len(p) : s[i + k - 1] = p[k]

\* p in s
Occurs(p, s) == \E i \in 1..(Len(s) + 1) : MatchAt(s, p, i)

RECURSIVE SplitFrom(_, _, _, _)
SplitFrom(s, sep, i, cur) ==
    IF i > Len(s) THEN <<cur>>
    ELSE IF MatchAt(s, sep, i)
         THEN <<cur>> \o SplitFrom(s, sep, i + Len(sep), <<>>)
         ELSE SplitFrom(s, sep, i + 1, Append(cur, s[i]))

\* s.split(sep), sep not empty
Split(s, sep) == SplitFrom(s, sep, 1, <<>>)

RECURSIVE ReplaceFrom(_, _, _, _)
ReplaceFrom(s, old, new, i) ==
    IF i > Len(s) THEN <<>>
    ELSE IF MatchAt(s, old, i)
         THEN new \o ReplaceFrom(s, old, new, i + Len(old))
         ELSE <<s[i]>> \o ReplaceFrom(s, old, new, i + 1)

RECURSIVE Interleave(_, _, _)
Interleave(s, new, i) ==
    IF i > Len(s) THEN new
    ELSE new \o <<s[i]>> \o Interleave(s, new, i + 1)

\* s.replace(old, new): every non-overlapping occurrence, left to right; an
\* empty old matches before every character and at the end
Replace(s, old, new) ==
    IF old = <<>> THEN Interleave(s, new, 1) ELSE ReplaceFrom(s, old, new, 1)

RECURSIVE Join(_, _)
\* sep.join(parts)
Join(parts, sep) ==
    IF parts = <<>> THEN <<>>
    ELSE IF Len(parts) = 1 THEN parts[1]
    ELSE parts[1] \o sep \o Join(Tail(parts), sep)

RECURSIVE Filter(_, _)
\* the elements of seq that are not in drop
Filter(seq, drop) ==
    IF seq = <<>> THEN <<>>
    ELSE IF seq[1] \in drop THEN Filter(Tail(seq), drop)
    ELSE <<seq[1]>> \o Filter(Tail(seq), drop)

-----------------------------------------------------------------------------
(* os.path *)

\* os.path.isabs
IsAbs(p) == Len(p) >= 1 /\ p[1] = "/"

\* the components commonpath compares: split on the separator, the empty
\* components and "." dropped
PathComps(p) == Filter(Split(p, SLASH), {<<>>, <<".">>})

RECURSIVE CommonComps(_, _)
\* the longest common prefix of the component lists in cl, up from index i
CommonComps(cl, i) ==
    IF /\ \A k \in 1..Len(cl) : Len(cl[k]) >= i
       /\ \A k \in 1..Len(cl) : cl[k][i] = cl[1][i]
    THEN <<cl[1][i]>> \o CommonComps(cl, i + 1)
    ELSE <<>>

\* os.path.commonpath raises ValueError: no paths, or absolute mixed with relative
CommonPathRaises(paths) ==
    \/ paths = <<>>
    \/ \E i, j \in 1..Len(paths) : IsAbs(paths[i]) /= IsAbs(paths[j])

\* os.path.commonpath(paths), where it does not raise
CommonPath(paths) ==
    LET cl == [k \in 1..Len(paths) |-> PathComps(paths[k])]
    IN (IF IsAbs(paths[1]) THEN SLASH ELSE <<>>) \o Join(CommonComps(cl, 1), SLASH)

\* os.path.join(a, b)
PathJoin(a, b) ==
    IF IsAbs(b) THEN b
    ELSE IF a = <<>> \/ a[Len(a)] = "/" THEN a \o b
    ELSE a \o SLASH \o b

-----------------------------------------------------------------------------
(* The parsing of an attribute string *)

\* inputString.split(",")
Items(s) == Split(s, COMMA)

\* item.split(" | ")[1] raises IndexError for an item without " | "
ParseRaises(s) == \E k \in 1..Len(Items(s)) : Len(Split(Items(s)[k], BAR)) < 2

\* [item.split(" | ")[1] for item in s.split(",")], where it does not raise
ParsePaths(s) == [k \in 1..Len(Items(s)) |-> Split(Items(s)[k], BAR)[2]]

\* the try block of extractCommonPath ends in its except clause
ExtractFails(s) == ParseRaises(s) \/ CommonPathRaises(ParsePaths(s))

\* a component-blind variant: the longest common character prefix
\* (os.path.commonprefix) in place of os.path.commonpath
RECURSIVE CharPrefix(_, _)
CharPrefix(paths, i) ==
    IF /\ \A k \in 1..Len(paths) : Len(paths[k]) >= i
       /\ \A k \in 1..Len(paths) : paths[k][i] = paths[1][i]
    THEN <<paths[1][i]>> \o CharPrefix(paths, i + 1)
    ELSE <<>>

extractCommonPrefixChars(s) ==
    IF ExtractFails(s) THEN <<>> ELSE CharPrefix(ParsePaths(s), 1)

extractCommonPath(s) ==
    IF ExtractFails(s) THEN <<>>
    ELSE Replace(CommonPath(ParsePaths(s)), <<"\\">>, SLASH)

\* the string main() builds from the two common paths
CustomStepString(preCommonPath, postCommonPath) ==
    <<"p", "r", "e">> \o BAR \o preCommonPath \o COMMA
        \o <<"p", "o", "s", "t">> \o BAR \o postCommonPath

-----------------------------------------------------------------------------
(* incrementVersion *)

Digits == <<"0", "1", "2", "3", "4", "5", "6", "7", "8", "9">>

IsDigit(c) == c \in Range(Digits)

DigitVal(c) == (CHOOSE k \in 1..Len(Digits) : Digits[k] = c) - 1

RECURSIVE ToInt(_)
\* int(digits)
ToInt(ds) ==
    IF ds = <<>> THEN 0
    ELSE ToInt(SubSeq(ds, 1, Len(ds) - 1)) * Len(Digits) + DigitVal(ds[Len(ds)])

RECURSIVE ToDigits(_)
\* str(n)
ToDigits(n) ==
    IF n < Len(Digits) THEN <<Digits[n + 1]>>
    ELSE ToDigits(n \div Len(Digits)) \o <<Digits[(n % Len(Digits)) + 1]>>

\* f"{n:02d}"
Format02d(n) == IF n < Len(Digits) THEN <<"0">> \o ToDigits(n) ELSE ToDigits(n)

\* the positions where (_v\d+)$ matches
VersionStarts(path) ==
    {i \in 1..Len(path) :
        /\ MatchAt(path, <<"_", "v">>, i)
        /\ i + 2 <= Len(path)
        /\ \A k \in (i + 2)..Len(path) : IsDigit(path[k])}

incrementVersion(path) ==
    IF VersionStarts(path) = {} THEN path
    ELSE LET i == CHOOSE j \in VersionStarts(path) :
                      \A k \in VersionStarts(path) : k <= j
         IN SubSeq(path, 1, i - 1) \o <<"_", "v">>
                \o Format02d(ToInt(From(path, i + 2)) + 1)

-----------------------------------------------------------------------------
(* duplicateFolder *)

\* shutil.copytree raises when the destination exists already, which it does
\* when incrementVersion returns the (existing) source path itself
CopyRaises(srcFolder, copyFails) == copyFails \/ incrementVersion(srcFolder) = srcFolder

\* the result of duplicateFolder(srcFolder) for a filesystem in which the
\* source exists or not and the copy fails or not, under a host whose
\* cmds.error raises (raises = TRUE) or returns
duplicateFolder(srcFolder, srcExists, copyFails, raises) ==
    IF ~srcExists \/ CopyRaises(srcFolder, copyFails)
    THEN [raised |-> raises, value |-> None, calls |-> <<"error">>]
    ELSE [raised |-> FALSE, value |-> incrementVersion(srcFolder),
          calls |-> <<"copytree", "confirmDialog_duplicated">>]

-----------------------------------------------------------------------------
(* checkFileExistence *)

\* fullPath for every path, in order
FullPaths(basePath, paths) ==
    [k \in 1..Len(paths) |-> Replace(PathJoin(basePath, paths[k]), <<"\\">>, SLASH)]

RECURSIVE SelectSeq2(_, _, _)
SelectSeq2(seq, set, keepIn) ==
    IF seq = <<>> THEN <<>>
    ELSE IF (seq[1] \in set) = keepIn
         THEN <<seq[1]>> \o SelectSeq2(Tail(seq), set, keepIn)
         ELSE SelectSeq2(Tail(seq), set, keepIn)

\* (existingFiles, missingFiles), fs the set of paths that exist
checkFileExistence(basePath, paths, fs) ==
    [existingFiles |-> SelectSeq2(FullPaths(basePath, paths), fs, TRUE),
     missingFiles |-> SelectSeq2(FullPaths(basePath, paths), fs, FALSE)]

-----------------------------------------------------------------------------
(* updateCustomStepStrings *)

\* cmds.confirmDialog of the missing files: a dismissed dialog returns the
\* dismissString, "Cancel"
ConfirmResult(answer) == IF answer = "dismiss" THEN "Cancel" ELSE answer

\* the record of a run that has not done anything yet
UpdStart(preV, postV, newPath, currentCommonPath) ==
    [ran |-> TRUE, preBefore |-> preV, postBefore |-> postV,
     newPath |-> newPath, oldPath |-> currentCommonPath,
     substituted |-> FALSE, preNew |-> <<>>, postNew |-> <<>>,
     checked |-> <<>>, missing |-> <<>>, prompted |-> FALSE, result |-> "none",
     preWritten |-> FALSE, postWritten |-> FALSE,
     calls |-> <<>>, outcome |-> "none"]

\* the except clause: cmds.error
UpdFailed(r, calls) == [r EXCEPT !.calls = calls \o <<"error">>, !.outcome = "failed"]

\* lines 300-309: the two writes and the success dialog
UpdWrite(r, calls, fault) ==
    IF fault = "setAttrPre" THEN UpdFailed(r, calls \o <<"setAttr_pre">>)
    ELSE IF fault = "setAttrPost"
    THEN UpdFailed([r EXCEPT !.preWritten = TRUE],
                   calls \o <<"setAttr_pre", "setAttr_post">>)
    ELSE [r EXCEPT !.preWritten = TRUE, !.postWritten = TRUE,
                   !.calls = calls \o <<"setAttr_pre", "setAttr_post",
                                        "confirmDialog_success">>,
                   !.outcome = "confirmed"]

\* a variant that goes on to write whatever the user answers
UpdCheckIgnoringCancel(r, calls, fault, fs, answer) ==
    LET paths == ParsePaths(r.preNew) \o ParsePaths(r.postNew)
        chk == checkFileExistence(r.newPath, paths, fs)
        r1 == [r EXCEPT !.checked = FullPaths(r.newPath, paths),
                        !.missing = chk.missingFiles]
        c1 == calls \o <<"checkFileExistence">>
    IN IF chk.missingFiles /= <<>>
       THEN UpdWrite([r1 EXCEPT !.prompted = TRUE, !.result = ConfirmResult(answer)],
                     c1 \o <<"confirmDialog_missing">>, fault)
       ELSE UpdWrite(r1, c1, fault)

\* lines 283-298: the existence check and the prompt
UpdCheck(r, calls, fault, fs, answer) ==
    LET chk == checkFileExistence(r.newPath,
                   ParsePaths(r.preNew) \o ParsePaths(r.postNew), fs)
        r1 == [r EXCEPT !.checked = FullPaths(r.newPath,
                                        ParsePaths(r.preNew) \o ParsePaths(r.postNew)),
                        !.missing = chk.missingFiles]
        c1 == calls \o <<"checkFileExistence">>
    IN IF chk.missingFiles /= <<>>
       THEN LET r2 == [r1 EXCEPT !.prompted = TRUE, !.result = ConfirmResult(answer)]
                c2 == c1 \o <<"confirmDialog_missing">>
            IN IF ConfirmResult(answer) = "Cancel"
               THEN [r2 EXCEPT !.calls = c2 \o <<"warning">>, !.outcome = "cancelled"]
               ELSE UpdWrite(r2, c2, fault)
       ELSE UpdWrite(r1, c1, fault)

\* a variant that writes preCustomStep as soon as it is substituted, before
\* the substituted strings are parsed and checked
updateWritingEarly(preV, postV, newPath, currentCommonPath, fault, fs, answer) ==
    LET r0 == UpdStart(preV, postV, newPath, currentCommonPath)
    IN IF fault = "getAttr" THEN UpdFailed(r0, <<"getAttr_pre">>)
       ELSE IF newPath = None THEN UpdFailed(r0, <<"getAttr_pre", "getAttr_post">>)
       ELSE LET r1 == [r0 EXCEPT !.substituted = TRUE, !.preWritten = TRUE,
                           !.preNew = Replace(preV, currentCommonPath, newPath),
                           !.postNew = Replace(postV, currentCommonPath, newPath)]
                c1 == <<"getAttr_pre", "getAttr_post", "setAttr_pre">>
            IN IF ParseRaises(r1.preNew) \/ ParseRaises(r1.postNew)
               THEN UpdFailed(r1, c1)
               ELSE UpdCheck(r1, c1, fault, fs, answer)

\* a variant that skips the writes when the substitution changed nothing
updateSkippingNoop(preV, postV, newPath, currentCommonPath, fault, fs, answer) ==
    LET r0 == UpdStart(preV, postV, newPath, currentCommonPath)
    IN IF fault = "getAttr" THEN UpdFailed(r0, <<"getAttr_pre">>)
       ELSE IF newPath = None THEN UpdFailed(r0, <<"getAttr_pre", "getAttr_post">>)
       ELSE LET r1 == [r0 EXCEPT !.substituted = TRUE,
                           !.preNew = Replace(preV, currentCommonPath, newPath),
                           !.postNew = Replace(postV, currentCommonPath, newPath)]
                c1 == <<"getAttr_pre", "getAttr_post">>
            IN IF ParseRaises(r1.preNew) \/ ParseRaises(r1.postNew)
               THEN UpdFailed(r1, c1)
               ELSE IF r1.preNew = preV /\ r1.postNew = postV
               THEN [r1 EXCEPT !.calls = c1 \o <<"confirmDialog_success">>,
                               !.outcome = "confirmed"]
               ELSE UpdCheck(r1, c1, fault, fs, answer)

\* updateCustomStepStrings(guide, newPath, currentCommonPath) on attribute
\* values preV, postV.  fault: the host call that raises, if any; fs: the
\* paths that exist; answer: the user's answer to the missing-files prompt.
\* getAttr raising and str.replace raising on a None newPath end the try
\* block before anything is computed.
updateCustomStepStrings(preV, postV, newPath, currentCommonPath, fault, fs, answer) ==
    LET r0 == UpdStart(preV, postV, newPath, currentCommonPath)
    IN IF fault = "getAttr" THEN UpdFailed(r0, <<"getAttr_pre">>)
       ELSE IF newPath = None THEN UpdFailed(r0, <<"getAttr_pre", "getAttr_post">>)
       ELSE LET r1 == [r0 EXCEPT !.substituted = TRUE,
                           !.preNew = Replace(preV, currentCommonPath, newPath),
                           !.postNew = Replace(postV, currentCommonPath, newPath)]
                c1 == <<"getAttr_pre", "getAttr_post">>
            IN IF ParseRaises(r1.preNew) \/ ParseRaises(r1.postNew)
               THEN UpdFailed(r1, c1)
               ELSE UpdCheck(r1, c1, fault, fs, answer)

\* the update of preV, postV keeps the attribute strings within MaxStrLen
Fits(preV, postV, newPath, currentCommonPath) ==
    \/ newPath = None
    \/ /\ Len(Replace(preV, currentCommonPath, newPath)) <= MaxStrLen
       /\ Len(Replace(postV, currentCommonPath, newPath)) <= MaxStrLen

\* the paths an update would test for existence, to draw the filesystem from
CheckedPaths(preV, postV, newPath, currentCommonPath) ==
    IF newPath = None THEN <<>>
    ELSE LET a == Replace(preV, currentCommonPath, newPath)
             b == Replace(postV, currentCommonPath, newPath)
         IN IF ParseRaises(a) \/ ParseRaises(b) THEN <<>>
            ELSE FullPaths(newPath, ParsePaths(a) \o ParsePaths(b))

-----------------------------------------------------------------------------
(* Inputs *)

Entry(label, path) == label \o BAR \o path

\* attribute values the guide node starts with: <<preCustomStep, postCustomStep>>
Scenarios ==
    { \* "s | /o/c/a", "t | /o/c/b": common path /o/c
      <<Entry(<<"s">>, <<"/", "o", "/", "c", "/", "a">>),
        Entry(<<"t">>, <<"/", "o", "/", "c", "/", "b">>)>>,
      \* "s | /a/a/x", "t | /a/b": common path /a, which occurs twice in a path
      <<Entry(<<"s">>, <<"/", "a", "/", "a", "/", "x">>),
        Entry(<<"t">>, <<"/", "a", "/", "b">>)>>,
      \* "s | a/x", "t | b/y": relative paths that share nothing
      <<Entry(<<"s">>, <<"a", "/", "x">>), Entry(<<"t">>, <<"b", "/", "y">>)>>,
      \* "s", "t | /a/b": an entry without " | "
      <<<<"s">>, Entry(<<"t">>, <<"/", "a", "/", "b">>)>>,
      \* "s | /a//b/x", "t | /a//b/y": common path /a/b, which occurs in neither
      <<Entry(<<"s">>, <<"/", "a", "/", "/", "b", "/", "x">>),
        Entry(<<"t">>, <<"/", "a", "/", "/", "b", "/", "y">>)>>,
      \* "s | /p_v09/a", "t | /p_v09/b": a versioned folder
      <<Entry(<<"s">>, <<"/", "p", "_", "v", "0", "9", "/", "a">>),
        Entry(<<"t">>, <<"/", "p", "_", "v", "0", "9", "/", "b">>)>> }

\* what the user types into the text field: "/n", "n | w"
TypedPaths == { <<"/", "n">>, <<"n", " ", "|", " ", "w">> }

\* the folders the folder-selection prompt can return: "/m"
Folders == { <<"/", "m">> }

\* the host calls that can raise
Faults == {"none", "getAttr", "setAttrPre", "setAttrPost"}

\* the user's answers to the missing-files prompt
Answers == {"Continue", "Cancel", "dismiss"}

-----------------------------------------------------------------------------
(* The editor window *)

\* no duplicateFolder call yet
NoDup == [raised |-> FALSE, value |-> <<>>, calls |-> <<>>]

\* fired: the handlers among onOK, onAddVer, onCancel that ran on this window;
\* callbacks: the arguments onConfirm was called with; dup: the last result
\* of duplicateFolder
NoWindow ==
    [exists |-> FALSE, currentPath |-> <<>>, text |-> <<>>,
     fired |-> <<>>, callbacks |-> <<>>, dup |-> NoDup]

\* showPathEditorDialog(currentPath, onConfirm): a window of that name that
\* exists is deleted, and a new one is made; onConfirm is main's lambda, which
\* holds the same currentPath
showPathEditorDialog(currentPath) ==
    [exists |-> TRUE, currentPath |-> currentPath, text |-> currentPath,
     fired |-> <<>>, callbacks |-> <<>>, dup |-> NoDup]

NoUpdate ==
    [ran |-> FALSE, preBefore |-> <<>>, postBefore |-> <<>>,
     newPath |-> <<>>, oldPath |-> <<>>,
     substituted |-> FALSE, preNew |-> <<>>, postNew |-> <<>>,
     checked |-> <<>>, missing |-> <<>>, prompted |-> FALSE, result |-> "none",
     preWritten |-> FALSE, postWritten |-> FALSE,
     calls |-> <<>>, outcome |-> "none"]

NoMain ==
    [outcome |-> "none", preRead |-> <<>>, postRead |-> <<>>,
     preCommonPath |-> <<>>, postCommonPath |-> <<>>, customCommonPath |-> <<>>]

\* the attributes after the run r of updateCustomStepStrings
Written(r, old, new, written) == IF written THEN new ELSE old

\* onConfirm(newPath): main's lambda runs updateCustomStepStrings and the
\* window records the call
Confirm(w, event, newPath, fault, fs, answer) ==
    \E r \in {updateCustomStepStrings(pre, post, newPath, w.currentPath,
                                      fault, fs, answer)} :
       /\ upd' = r
       /\ pre' = Written(r, pre, r.preNew, r.preWritten)
       /\ post' = Written(r, post, r.postNew, r.postWritten)
       /\ window' = [w EXCEPT !.exists = FALSE,
                              !.fired = Append(w.fired, event),
                              !.callbacks = Append(w.callbacks, newPath)]

-----------------------------------------------------------------------------
(* Actions *)

Init ==
    /\ \E sc \in Scenarios : pre = sc[1] /\ post = sc[2]
    /\ guideFound \in BOOLEAN
    /\ errRaises \in BOOLEAN
    /\ runs = 0
    /\ window = NoWindow
    /\ mainLog = NoMain
    /\ upd = NoUpdate

\* main(): findGuideNode raising and getAttr raising end in the except clause
\* before any window is made.  upd describes the update of the flow that
\* main starts, so it starts empty.
Main ==
    /\ runs < MaxRuns
    /\ runs' = runs + 1
    /\ \E fault \in {"none", "getAttr"} :
         IF ~guideFound \/ fault = "getAttr"
         THEN /\ mainLog' = [NoMain EXCEPT !.outcome = "error"]
              /\ UNCHANGED window
         ELSE \E preCommonPath \in {extractCommonPath(pre)},
                 postCommonPath \in {extractCommonPath(post)} :
              \E customCommonPath \in
                     {extractCommonPath(CustomStepString(preCommonPath, postCommonPath))} :
                 /\ mainLog' = [outcome |-> "shown", preRead |-> pre, postRead |-> post,
                                preCommonPath |-> preCommonPath,
                                postCommonPath |-> postCommonPath,
                                customCommonPath |-> customCommonPath]
                 /\ window' = showPathEditorDialog(customCommonPath)
    /\ upd' = NoUpdate
    /\ UNCHANGED <<pre, post, guideFound, errRaises>>

\* the user edits the text field of the window
TypeText ==
    /\ window.exists
    /\ \E t \in TypedPaths : window' = [window EXCEPT !.text = t]
    /\ UNCHANGED <<pre, post, guideFound, errRaises, runs, mainLog, upd>>

\* onBrowse: fileDialog2 returns the chosen folder, or nothing when dismissed
OnBrowse ==
    /\ window.exists
    /\ \E folderPath \in {<<>>} \cup {<<f>> : f \in Folders} :
         window' = IF folderPath /= <<>>
                   THEN [window EXCEPT !.text = folderPath[1]]
                   ELSE window
    /\ UNCHANGED <<pre, post, guideFound, errRaises, runs, mainLog, upd>>

\* onOK: the text of the field, deleteUI, onConfirm
OnOK ==
    /\ window.exists
    /\ Len(window.fired) < MaxFired
    /\ Fits(pre, post, window.text, window.currentPath)
    /\ \E paths \in {CheckedPaths(pre, post, window.text, window.currentPath)} :
       \E fs \in SUBSET Range(paths) :
         \E fault \in Faults, answer \in Answers :
            Confirm(window, "OK", window.text, fault, fs, answer)
    /\ UNCHANGED <<guideFound, errRaises, runs, mainLog>>

\* onAddVer: duplicateFolder, deleteUI, onConfirm.  When duplicateFolder
\* raises, the handler ends there: the window stays and nothing is called.
OnAddVer ==
    /\ window.exists
    /\ Len(window.fired) < MaxFired
    /\ \E srcExists \in BOOLEAN, copyFails \in BOOLEAN :
         \E d \in {duplicateFolder(window.currentPath, srcExists, copyFails, errRaises)} :
            IF d.raised
            THEN /\ window' = [window EXCEPT !.fired = Append(window.fired, "AddVer"),
                                             !.dup = d]
                 /\ UNCHANGED <<pre, post, upd>>
            ELSE /\ Fits(pre, post, d.value, window.currentPath)
                 /\ \E paths \in {CheckedPaths(pre, post, d.value, window.currentPath)} :
                    \E fs \in SUBSET Range(paths) :
                      \E fault \in Faults, answer \in Answers :
                         Confirm([window EXCEPT !.dup = d], "AddVer", d.value,
                                 fault, fs, answer)
    /\ UNCHANGED <<guideFound, errRaises, runs, mainLog>>

\* onCancel: deleteUI
OnCancel ==
    /\ window.exists
    /\ Len(window.fired) < MaxFired
    /\ window' = [window EXCEPT !.exists = FALSE,
                                !.fired = Append(window.fired, "Cancel")]
    /\ UNCHANGED <<pre, post, guideFound, errRaises, runs, mainLog, upd>>

Next == Main \/ TypeText \/ OnBrowse \/ OnOK \/ OnAddVer \/ OnCancel

Spec == Init /\ [][Next]_vars

-----------------------------------------------------------------------------
(* extractCommonPath and main's parsing on generated path lists *)

\* the path components of the generated paths: "a", "ab", "."
Comps == { <<"a">>, <<"a", "b">>, <<".">> }

\* absolute and relative paths of 1..MaxDepth components
GenPaths ==
    UNION { { (IF abs THEN SLASH ELSE <<>>) \o Join(cs, SLASH) :
                cs \in [1..n -> Comps], abs \in BOOLEAN } : n \in 1..MaxDepth }

\* lists of one entry and of two entries
GenLists ==
    { Entry(<<"s">>, p) : p \in GenPaths }
        \cup { Entry(<<"s">>, p) \o COMMA \o Entry(<<"t">>, q) : p, q \in GenPaths }

\* postCustomStep: "t | /a/ab", "t | a/ab", "t | /ab/./a"
PostSamples ==
    { Entry(<<"t">>, <<"/", "a", "/", "a", "b">>),
      Entry(<<"t">>, <<"a", "/", "a", "b">>),
      Entry(<<"t">>, <<"/", "a", "b", "/", ".", "/", "a">>) }

InitParse ==
    /\ pre \in GenLists
    /\ post \in PostSamples
    /\ guideFound = TRUE
    /\ errRaises = TRUE
    /\ runs = 0
    /\ window = NoWindow
    /\ mainLog = NoMain
    /\ upd = NoUpdate

\* the first run of main on each of the generated attribute values
ParseRun == runs = 0 /\ Main

SpecParse == InitParse /\ [][ParseRun]_vars

-----------------------------------------------------------------------------
(* Notions the claims are stated with *)

\* a well-formed comma list of "label | path" entries: every comma-separated
\* segment is one label and one path, neither empty, joined by one " | "
WellFormed(s) ==
    \A k \in 1..Len(Items(s)) :
        LET fields == Split(Items(s)[k], BAR)
        IN Len(fields) = 2 /\ fields[1] /= <<>> /\ fields[2] /= <<>>

IsPrefix(a, b) == Len(a) <= Len(b) /\ SubSeq(b, 1, Len(a)) = a

\* r is the common directory of paths: written with forward slashes from
\* whole components, these lead every path, and no further component does;
\* absolute and relative paths share nothing
IsCommonDir(r, paths) ==
    LET R == PathComps(r)
        n == Len(R)
    IN IF \E i, j \in 1..Len(paths) : IsAbs(paths[i]) /= IsAbs(paths[j])
       THEN r = <<>>
       ELSE /\ r = (IF IsAbs(paths[1]) THEN SLASH ELSE <<>>) \o Join(R, SLASH)
            /\ \A i \in 1..Len(paths) : IsPrefix(R, PathComps(paths[i]))
            /\ \/ \E i \in 1..Len(paths) : Len(PathComps(paths[i])) = n
               \/ \E i, j \in 1..Len(paths) :
                     PathComps(paths[i])[n + 1] /= PathComps(paths[j])[n + 1]

-----------------------------------------------------------------------------
(* Claims *)

\* C9: for well-formed lists, extractCommonPath returns the common directory
\* of the paths of the list (the longest run of leading whole components all
\* of them share, written with forward slashes), and the common path main
\* derives from the two common paths is the common directory of the paths of
\* both attributes.
C9_CommonPathIsCommonDir ==
    (mainLog.outcome = "shown"
        /\ WellFormed(mainLog.preRead) /\ WellFormed(mainLog.postRead))
    => /\ IsCommonDir(mainLog.preCommonPath, ParsePaths(mainLog.preRead))
       /\ IsCommonDir(mainLog.postCommonPath, ParsePaths(mainLog.postRead))
       /\ IsCommonDir(mainLog.customCommonPath,
                      ParsePaths(mainLog.preRead) \o ParsePaths(mainLog.postRead))
       /\ window.exists /\ window.currentPath = mainLog.customCommonPath

\* C9 witness: main has parsed a two-entry list whose paths share a proper,
\* non-empty directory, and the combined common path is a proper directory
\* of postCustomStep's path
C9_Witness ==
    /\ mainLog.outcome = "shown"
    /\ WellFormed(mainLog.preRead) /\ WellFormed(mainLog.postRead)
    /\ Len(Items(mainLog.preRead)) = 2
    /\ ParsePaths(mainLog.preRead)[1] /= ParsePaths(mainLog.preRead)[2]
    /\ mainLog.preCommonPath \notin {<<>>, SLASH}
    /\ mainLog.preCommonPath /= ParsePaths(mainLog.preRead)[1]
    /\ Len(PathComps(ParsePaths(mainLog.preRead)[1])) >= 2
    /\ mainLog.customCommonPath \notin {<<>>, SLASH, mainLog.postCommonPath}


Has(calls, c) == c \in Range(calls)

\* some call a comes before position i of calls
Before(calls, a, i) == \E j \in 1..(i - 1) : calls[j] = a

Last(seq) == seq[Len(seq)]

\* C1: when the existence check reports a missing file and the user answers
\* the prompt with Cancel (or dismisses it), both attributes keep the values
\* they had before the update, a warning is emitted and there is no success
\* dialog.
C1_CancelKeepsAttributes ==
    (upd.ran /\ upd.missing /= <<>> /\ upd.result = "Cancel")
    => /\ pre = upd.preBefore
       /\ post = upd.postBefore
       /\ ~upd.preWritten /\ ~upd.postWritten
       /\ ~Has(upd.calls, "setAttr_pre") /\ ~Has(upd.calls, "setAttr_post")
       /\ Has(upd.calls, "warning")
       /\ ~Has(upd.calls, "confirmDialog_success")
       /\ upd.outcome = "cancelled"

\* C1 witness: an update that would have changed preCustomStep was cancelled
\* at the missing-files prompt
C1_Witness ==
    /\ upd.ran /\ upd.missing /= <<>> /\ upd.result = "Cancel"
    /\ upd.preNew /= upd.preBefore
    /\ pre = upd.preBefore

\* the calls of an update are in the order read, substitute, check, prompt, write
OrderOK(u) ==
    /\ \A i \in 1..Len(u.calls) :
          /\ u.calls[i] = "checkFileExistence"
                => Before(u.calls, "getAttr_post", i) /\ u.substituted
          /\ u.calls[i] \in {"setAttr_pre", "setAttr_post"}
                => /\ Before(u.calls, "checkFileExistence", i)
                   /\ u.missing /= <<>>
                        => Before(u.calls, "confirmDialog_missing", i)
                           /\ u.result = "Continue"
          /\ u.calls[i] = "setAttr_post" => Before(u.calls, "setAttr_pre", i)
    /\ (u.preWritten \/ u.postWritten) => Has(u.calls, "setAttr_pre")

C4_Step ==
    /\ (pre' /= pre \/ post' /= post)
        => /\ upd'.ran /\ upd'.preBefore = pre /\ upd'.postBefore = post
           /\ upd'.preWritten /\ pre' = upd'.preNew
           /\ post' /= post => upd'.postWritten /\ post' = upd'.postNew
           /\ Last(upd'.calls) \in {"error", "confirmDialog_success"}
           /\ runs' = runs /\ mainLog' = mainLog
           /\ window.exists /\ ~window'.exists
           /\ window'.text = window.text
           /\ Last(window'.fired) \in {"OK", "AddVer"}
    /\ OrderOK(upd')
    /\ upd'.ran => runs' >= 1 /\ upd'.oldPath = window'.currentPath
    /\ window'.exists => runs' >= 1

\* C4: the two attributes change only in the write step of
\* updateCustomStepStrings, run from the Update or AddVer handler of a window
\* that main has shown; within an update no write comes before the existence
\* check, and a write after a non-empty missing list comes after the user
\* chose Continue; main, browsing, typing and cancelling change no attribute.
C4_WriteOrder == [][C4_Step]_vars

\* C4 witness: files were missing, the user chose Continue, and the update
\* wrote a changed preCustomStep
C4_Witness ==
    /\ upd.outcome = "confirmed" /\ upd.prompted /\ upd.result = "Continue"
    /\ pre = upd.preNew /\ pre /= upd.preBefore

\* the try block raises before the existence check: getAttr raises, or
\* str.replace raises on None, or an entry of a substituted string has no " | "
RaisesBeforeCheck(u) ==
    \/ ~Has(u.calls, "getAttr_post")
    \/ u.newPath = None
    \/ /\ u.newPath /= None
       /\ \/ ParseRaises(Replace(u.preBefore, u.oldPath, u.newPath))
          \/ ParseRaises(Replace(u.postBefore, u.oldPath, u.newPath))

\* C5: both strings are read, substituted, parsed and checked before either
\* attribute is written; an exception in reading, substituting or parsing ends
\* the update failed with neither attribute changed; exactly one attribute is
\* written only when the second setAttr itself raises.
C5_ComputedBeforeWritten ==
    upd.ran =>
      /\ RaisesBeforeCheck(upd)
            => /\ upd.outcome = "failed" /\ Last(upd.calls) = "error"
               /\ ~upd.preWritten /\ ~upd.postWritten
               /\ pre = upd.preBefore /\ post = upd.postBefore
      /\ (upd.preWritten \/ upd.postWritten)
            => /\ upd.substituted
               /\ upd.preNew = Replace(upd.preBefore, upd.oldPath, upd.newPath)
               /\ upd.postNew = Replace(upd.postBefore, upd.oldPath, upd.newPath)
               /\ ~ParseRaises(upd.preNew) /\ ~ParseRaises(upd.postNew)
               /\ upd.checked = FullPaths(upd.newPath,
                                    ParsePaths(upd.preNew) \o ParsePaths(upd.postNew))
               /\ OrderOK(upd)
      /\ (upd.preWritten /= upd.postWritten)
            => /\ upd.preWritten /\ upd.outcome = "failed"
               /\ Len(upd.calls) >= 2
               /\ upd.calls[Len(upd.calls) - 1] = "setAttr_post"
               /\ Last(upd.calls) = "error"
               /\ pre = upd.preNew /\ post = upd.postBefore

\* C5 witness: the substitution changed preCustomStep, parsing the result
\* raised, and the attribute still has its old value
C5_Witness ==
    /\ upd.ran /\ upd.substituted /\ upd.outcome = "failed"
    /\ ParseRaises(upd.preNew)
    /\ upd.preNew /= upd.preBefore
    /\ pre = upd.preBefore /\ post = upd.postBefore

\* the old common path occurs in neither attribute string
OldPathAbsent(u) ==
    /\ u.ran
    /\ ~Occurs(u.oldPath, u.preBefore)
    /\ ~Occurs(u.oldPath, u.postBefore)

\* C10 as stated: for every update in which the old common path occurs in
\* neither attribute string (and no exception ends it), the computed strings
\* equal the current values and both attributes are written.
C10_Original ==
    (OldPathAbsent(upd) /\ upd.outcome /= "failed")
    => /\ upd.preNew = upd.preBefore /\ upd.postNew = upd.postBefore
       /\ upd.preWritten /\ upd.postWritten

\* C10 amended: for every update in which the old common path occurs in
\* neither attribute string, the computed strings equal the current values,
\* and both attributes are written with them unless the user cancels the
\* missing-files prompt or an exception ends the update; the update is
\* cancelled only by that answer.
C10_NoopStillWritten ==
    OldPathAbsent(upd)
    => /\ upd.substituted
            => upd.preNew = upd.preBefore /\ upd.postNew = upd.postBefore
       /\ pre = upd.preBefore /\ post = upd.postBefore
       /\ upd.outcome \in {"confirmed", "cancelled", "failed"}
       /\ upd.outcome = "confirmed"
            => /\ upd.preWritten /\ upd.postWritten
               /\ Has(upd.calls, "setAttr_pre") /\ Has(upd.calls, "setAttr_post")
       /\ upd.outcome = "cancelled"
            => upd.missing /= <<>> /\ upd.result = "Cancel"
       /\ upd.outcome = "failed" => Last(upd.calls) = "error"

\* C10 witness: an update whose old common path occurs in neither string
\* wrote both attributes, with their old values
C10_Witness ==
    /\ OldPathAbsent(upd)
    /\ upd.outcome = "confirmed" /\ upd.preWritten /\ upd.postWritten
    /\ pre = upd.preBefore /\ post = upd.postBefore
    /\ upd.newPath /= upd.oldPath

\* the entry with the leading C of its path replaced by P
ExpectedEntry(item, C, P) ==
    LET f == Split(item, BAR)
    IN f[1] \o BAR \o (IF IsPrefix(C, f[2]) THEN P \o From(f[2], Len(C) + 1) ELSE f[2])

\* the well-formed list s with the leading C of every path replaced by P
Expected(s, C, P) ==
    Join([k \in 1..Len(Items(s)) |-> ExpectedEntry(Items(s)[k], C, P)], COMMA)

\* C6 as stated: for well-formed attributes with the (non-empty) common path
\* C main computed, when the user confirms P and no checked file is missing
\* (and no exception ends the update), both attributes are written, each with
\* the leading C of every path replaced by P and nothing else changed, the
\* success dialog is shown and there is no missing-files prompt.
C6_Original ==
    (/\ upd.ran /\ upd.newPath /= None /\ upd.outcome /= "failed"
     /\ upd.oldPath /= <<>>
     /\ WellFormed(upd.preBefore) /\ WellFormed(upd.postBefore)
     /\ upd.preBefore = mainLog.preRead /\ upd.postBefore = mainLog.postRead
     /\ upd.oldPath = mainLog.customCommonPath
     /\ upd.missing = <<>>)
    => /\ upd.preWritten /\ upd.postWritten
       /\ pre = Expected(upd.preBefore, upd.oldPath, upd.newPath)
       /\ post = Expected(upd.postBefore, upd.oldPath, upd.newPath)
       /\ Has(upd.calls, "confirmDialog_success")
       /\ ~upd.prompted

\* C7 as stated: an update of well-formed attributes (with a non-empty
\* common path) leaves both attributes well-formed, whatever new path the
\* user supplies.
C7_Original ==
    (/\ upd.ran /\ upd.oldPath /= <<>>
     /\ WellFormed(upd.preBefore) /\ WellFormed(upd.postBefore))
    => WellFormed(pre) /\ WellFormed(post)

\* C8 as stated (its conclusion): no update run with an empty old common path
\* rewrites the attribute strings.
C8_Original ==
    (upd.ran /\ upd.oldPath = <<>>)
    => pre = upd.preBefore /\ post = upd.postBefore

\* duplicateFolder has failed on this window
DupFailed(w) == Has(w.dup.calls, "error")

\* C3 as stated: when folder duplication fails on AddVer, the failure is
\* reported, duplicateFolder yields a null result, and the continuation,
\* hence updateCustomStepStrings, is not run with a null new path.
C3_Original ==
    DupFailed(window)
    => /\ ~window.dup.raised /\ window.dup.value = None
       /\ ~Has(window.callbacks, None)
       /\ ~(upd.ran /\ upd.newPath = None)

\* C2 as stated: on one window at most one of Update, AddVer, Cancel fires
\* and then the window is gone; the continuation is called exactly once, with
\* the chosen new path, when Update or AddVer fires, and never by Cancel.
C2_Original ==
    /\ Len(window.fired) <= 1
    /\ window.fired /= <<>> => ~window.exists
    /\ window.fired \in {<<"OK">>, <<"AddVer">>}
          => Len(window.callbacks) = 1 /\ window.callbacks[1] /= None
    /\ window.fired \in {<<>>, <<"Cancel">>} => window.callbacks = <<>>

=============================================================================
